---- MODULE Spec2Model ----
(***************************************************************************)
(* plugin-alias: the `--alias` flag of the bundler CLI.                    *)
(*                                                                         *)
(* Two registrations of the flag live in the repository:                   *)
(*   - PluginLoader.addFlags (command `bundle`), with getInputPlugin;      *)
(*   - s_ADD_FLAGS of the older init hook (command `build`).               *)
(* Both give the flag a `default` function reading an environment          *)
(* variable as JSON and a `verify` callback rewriting flags.alias.         *)
(*                                                                         *)
(* JavaScript values are records [type, str, items]; strings are sequences *)
(* of one-character strings; JSON text is a sequence of tokens.            *)
(***************************************************************************)
EXTENDS Integers, Sequences, FiniteSets

VARIABLES
    command,      \* id of the CLI command being run: "bundle" or "build"
    flagEnvPrefix, \* global.$$flag_env_prefix
    argv,         \* --alias occurrences on the command line (Undefined when absent)
    env,          \* the environment variable set: [name, value as JSON tokens], or NotSet
    flags,        \* the mutable flags object: [alias, entry]
    pc,           \* position in the pipeline
    thrown,       \* the error thrown by the pipeline, NoError when none
    entries,      \* verify's local `entries`
    badEntries,   \* verify's local `badEntries`
    warnEntries,  \* verify's local `warnEntries`
    verifyArg,    \* flags.alias on entry of the last verify call
    verifyCalls,  \* number of verify calls on the current flags object
    aliasCalls,   \* arguments the external alias() transform was called with
    bundleData,   \* argument of the last getInputPlugin call
    plugin,       \* value returned by getInputPlugin
    runs,         \* number of flags objects this process has been given
    seenIn,       \* first input sequence verify accepted without error
    seenOut       \* flags.alias verify produced for seenIn

vars == <<command, flagEnvPrefix, argv, env, flags, pc, thrown, entries, badEntries, warnEntries,
          verifyArg, verifyCalls, aliasCalls, bundleData, plugin, runs, seenIn, seenOut>>

-----------------------------------------------------------------------------
(* Bounds of the model *)

MaxEntries == 3
MaxEnvTokens == 5
MaxStrLen == 5
MaxVerifyCalls == 2
MaxRepeatEntries == 2
MaxRuns == 3

-----------------------------------------------------------------------------
(* JavaScript values *)

Undefined == [type |-> "undefined", str |-> <<>>, items |-> <<>>]
Null == [type |-> "null", str |-> <<>>, items |-> <<>>]
True == [type |-> "boolean", str |-> <<"t", "r", "u", "e">>, items |-> <<>>]
Str(s) == [type |-> "string", str |-> s, items |-> <<>>]
Num(s) == [type |-> "number", str |-> s, items |-> <<>>]
Arr(xs) == [type |-> "array", str |-> <<>>, items |-> xs]
\* an object: items alternates key, value
Obj(kvs) == [type |-> "object", str |-> <<>>, items |-> kvs]

ArrayIsArray(v) == v.type = "array"

\* typeof v === 'object'
TypeofObject(v) == v.type \in {"object", "array", "null"}

RECURSIVE Join(_, _)
Join(ss, sep) ==
    IF ss = <<>> THEN <<>>
    ELSE IF Len(ss) = 1 THEN ss[1]
    ELSE ss[1] \o sep \o Join(Tail(ss), sep)

RECURSIVE ToString(_)
ToString(v) ==
    CASE v.type = "string" -> v.str
      [] v.type = "number" -> v.str
      [] v.type = "boolean" -> v.str
      [] v.type = "null" -> <<"n", "u", "l", "l">>
      [] v.type = "undefined" -> <<"u", "n", "d", "e", "f", "i", "n", "e", "d">>
      [] v.type = "object" ->
            <<"[", "o", "b", "j", "e", "c", "t", " ", "O", "b", "j", "e", "c", "t", "]">>
      [] v.type = "array" ->
            Join([i \in 1..Len(v.items) |->
                    IF v.items[i].type \in {"null", "undefined"} THEN <<>>
                    ELSE ToString(v.items[i])], <<",">>)

-----------------------------------------------------------------------------
(* The regular expression /(.+)=(.+)/ *)

LineTerminators == {"\n", "\r"}

\* `.` matches any character but a line terminator
Dot(c) == c \notin LineTerminators

\* positions of an `=` that can end group 1 of a match starting at i
SplitsAt(s, i) ==
    {j \in (i + 1)..(Len(s) - 1) :
        /\ \A k \in i..(j - 1) : Dot(s[k])
        /\ s[j] = "="
        /\ Dot(s[j + 1])}

Max(S) == CHOOSE x \in S : \A y \in S : y <= x
Min(S) == CHOOSE x \in S : \A y \in S : x <= y

\* start positions from which the pattern can match
Starts(s) == {i \in 1..Len(s) : SplitsAt(s, i) # {}}

\* end of the line holding position j: group 2 is greedy too
LineEnd(s, j) == Max({k \in (j + 1)..Len(s) : \A m \in (j + 1)..k : Dot(s[m])})

\* <<whole match, group 1, group 2>> for a match from i split at j
Groups(s, i, j) ==
    <<SubSeq(s, i, LineEnd(s, j)), SubSeq(s, i, j - 1), SubSeq(s, j + 1, LineEnd(s, j))>>

\* mutant: a lazy first group, /(.+?)=(.+)/
MatchFromLazy(s, i) == Groups(s, i, Min(SplitsAt(s, i)))

\* group 1 is greedy: it ends at the last `=` that leaves a character for group 2
MatchFrom(s, i) == Groups(s, i, Max(SplitsAt(s, i)))

\* the match starts at the leftmost position that can match
ExecString(s) == IF Starts(s) = {} THEN <<>> ELSE MatchFrom(s, Min(Starts(s)))

\* regex.exec(entry): null (<<>>) or <<whole match, group 1, group 2>>;
\* the argument is converted to a string first
RegexExec(entry) == ExecString(ToString(entry))

-----------------------------------------------------------------------------
(* JSON text, as a sequence of tokens *)

Tk(k) == [tok |-> k, str |-> <<>>]
TkStr(s) == [tok |-> "string", str |-> s]
TkNum(s) == [tok |-> "number", str |-> s]

SyntaxError == [ok |-> FALSE, value |-> Undefined, rest |-> <<>>]
Parsed(v, rest) == [ok |-> TRUE, value |-> v, rest |-> rest]

\* obj[k] = v on the alternating key, value list
RECURSIVE SetMember(_, _, _)
SetMember(kvs, k, v) ==
    IF kvs = <<>> THEN <<k, v>>
    ELSE IF kvs[1] = k THEN <<k, v>> \o SubSeq(kvs, 3, Len(kvs))
    ELSE <<kvs[1], kvs[2]>> \o SetMember(SubSeq(kvs, 3, Len(kvs)), k, v)

RECURSIVE ParseValue(_), ParseElements(_, _), ParseMembers(_, _)

\* after `[` and after each `,`: a value, then `,` or `]`
ParseElements(ts, acc) ==
    LET r == ParseValue(ts)
    IN  IF ~r.ok \/ r.rest = <<>> THEN SyntaxError
        ELSE IF r.rest[1].tok = "]" THEN Parsed(Arr(Append(acc, r.value)), Tail(r.rest))
        ELSE IF r.rest[1].tok = "," THEN ParseElements(Tail(r.rest), Append(acc, r.value))
        ELSE SyntaxError

\* after `{` and after each `,`: a string, `:`, a value, then `,` or `}`
ParseMembers(ts, acc) ==
    IF Len(ts) < 2 \/ ts[1].tok # "string" \/ ts[2].tok # ":" THEN SyntaxError
    ELSE LET r == ParseValue(SubSeq(ts, 3, Len(ts)))
             kvs == SetMember(acc, Str(ts[1].str), r.value)
         IN  IF ~r.ok \/ r.rest = <<>> THEN SyntaxError
             ELSE IF r.rest[1].tok = "}" THEN Parsed(Obj(kvs), Tail(r.rest))
             ELSE IF r.rest[1].tok = "," THEN ParseMembers(Tail(r.rest), kvs)
             ELSE SyntaxError

ParseValue(ts) ==
    IF ts = <<>> THEN SyntaxError
    ELSE CASE ts[1].tok = "string" -> Parsed(Str(ts[1].str), Tail(ts))
           [] ts[1].tok = "number" -> Parsed(Num(ts[1].str), Tail(ts))
           [] ts[1].tok = "null" -> Parsed(Null, Tail(ts))
           [] ts[1].tok = "true" -> Parsed(True, Tail(ts))
           [] ts[1].tok = "[" ->
                IF Len(ts) >= 2 /\ ts[2].tok = "]" THEN Parsed(Arr(<<>>), SubSeq(ts, 3, Len(ts)))
                ELSE ParseElements(Tail(ts), <<>>)
           [] ts[1].tok = "{" ->
                IF Len(ts) >= 2 /\ ts[2].tok = "}" THEN Parsed(Obj(<<>>), SubSeq(ts, 3, Len(ts)))
                ELSE ParseMembers(Tail(ts), <<>>)
           [] OTHER -> SyntaxError

\* JSON.parse(text): the whole text must be one value
JSONparse(ts) ==
    LET r == ParseValue(ts)
    IN  IF r.ok /\ r.rest = <<>> THEN r ELSE SyntaxError

\* JSON.stringify(value)
RECURSIVE JSONstringify(_)
JSONstringify(v) ==
    CASE v.type = "string" -> <<TkStr(v.str)>>
      [] v.type = "number" -> <<TkNum(v.str)>>
      [] v.type = "boolean" -> <<Tk("true")>>
      [] v.type \in {"null", "undefined"} -> <<Tk("null")>>
      [] v.type = "array" ->
            <<Tk("[")>>
            \o Join([i \in 1..Len(v.items) |-> JSONstringify(v.items[i])], <<Tk(",")>>)
            \o <<Tk("]")>>
      [] v.type = "object" ->
            <<Tk("{")>>
            \o Join([i \in 1..(Len(v.items) \div 2) |->
                        <<TkStr(v.items[2 * i - 1].str), Tk(":")>>
                        \o JSONstringify(v.items[2 * i])], <<Tk(",")>>)
            \o <<Tk("}")>>

-----------------------------------------------------------------------------
(* Errors and their messages: a message is a sequence of literal parts and *)
(* of JSON.stringify results                                               *)

Lit(s) == [lit |-> s, json |-> <<>>]
Json(v) == [lit |-> "", json |-> JSONstringify(v)]

NoError == [kind |-> "none", bundler_fatal |-> TRUE, message |-> <<>>]

\* new NonFatalError(message), of @typhonjs-node-bundle/oclif-commons
NonFatalError(message) ==
    [kind |-> "NonFatalError", bundler_fatal |-> FALSE, message |-> message]

\* new Error(message) with error.$$bundler_fatal = false
ErrorNotFatal(message) ==
    [kind |-> "Error", bundler_fatal |-> FALSE, message |-> message]

\* error.message of the SyntaxError JSON.parse throws
SyntaxErrorMessage == Lit("Unexpected token in JSON")

-----------------------------------------------------------------------------
(* The flags object and the environment *)

NotSet == [name |-> "", value |-> <<>>]

\* typeof envVars[name] === 'string'
EnvIsString(envVars, name) == envVars # NotSet /\ envVars.name = name

\* property names, as strings of the model
KeyEntries == <<"e", "n", "t", "r", "i", "e", "s">>
KeyFind == <<"f", "i", "n", "d">>
KeyReplacement == <<"r", "e", "p", "l", "a", "c", "e", "m", "e", "n", "t">>

\* obj[key], undefined when the object has no such property
RECURSIVE Member(_, _)
Member(kvs, key) ==
    IF Len(kvs) < 2 THEN Undefined
    ELSE IF kvs[1] = Str(key) THEN kvs[2]
    ELSE Member(SubSeq(kvs, 3, Len(kvs)), key)

-----------------------------------------------------------------------------
(* PluginLoader.addFlags: the `default` function of the alias flag *)

Returned(v) == [thrown |-> NoError, value |-> v]
Threw(e) == [thrown |-> e, value |-> Undefined]

\* `${global.$$flag_env_prefix}_ALIAS`
EnvVarName(prefix) == prefix \o "_ALIAS"

\* mutant: the Array.isArray test is missing
DefaultResultAnyJson(result, envVar) ==
    IF ~result.ok
    THEN Threw(NonFatalError(
            <<Lit("Could not parse '"), Lit(envVar), Lit("' as a JSON array;\n"),
              SyntaxErrorMessage>>))
    ELSE Returned(result.value)

\* after JSON.parse: the catch block, the Array.isArray test, the return
DefaultResult(result, envVar) ==
    IF ~result.ok
    THEN Threw(NonFatalError(
            <<Lit("Could not parse '"), Lit(envVar), Lit("' as a JSON array;\n"),
              SyntaxErrorMessage>>))
    ELSE IF ~ArrayIsArray(result.value)
    THEN Threw(NonFatalError(
            <<Lit("Please format '"), Lit(envVar), Lit("' as a JSON array.")>>))
    ELSE Returned(result.value)

DefaultOf(envVars, envVar) ==
    IF EnvIsString(envVars, envVar)
    THEN DefaultResult(JSONparse(envVars.value), envVar)
    ELSE Returned(Undefined)

AliasDefault(envVars, prefix) == DefaultOf(envVars, EnvVarName(prefix))

\* s_ADD_FLAGS of the older init hook: the same, on process.env.DEPLOY_ALIAS
LegacyResult(result) ==
    IF ~result.ok
    THEN Threw(ErrorNotFatal(
            <<Lit("Could not parse 'DEPLOY_ALIAS' as a JSON array;\n"), SyntaxErrorMessage>>))
    ELSE IF ~ArrayIsArray(result.value)
    THEN Threw(ErrorNotFatal(<<Lit("Please format 'DEPLOY_ALIAS' as a JSON array.")>>))
    ELSE Returned(result.value)

LegacyDefault(envVars) ==
    IF EnvIsString(envVars, "DEPLOY_ALIAS")
    THEN LegacyResult(JSONparse(envVars.value))
    ELSE Returned(Undefined)

-----------------------------------------------------------------------------
(* PluginLoader.addFlags: verify *)

\* mutant: the capture groups taken one index too low
AliasEntryOffByOne(matches) ==
    Obj(<<Str(KeyFind), Str(matches[1]), Str(KeyReplacement), Str(matches[2])>>)

\* { find: matches[1], replacement: matches[2] }
AliasEntry(matches) ==
    Obj(<<Str(KeyFind), Str(matches[2]), Str(KeyReplacement), Str(matches[3])>>)

\* mutant: `=` for `|=`, so only the last accepted entry is compared
ReduceFindAssign(es, find, accum) ==
    IF es = <<>> THEN accum
    ELSE IF Member(es[Len(es)].items, KeyFind) = Str(find) THEN 1 ELSE 0

\* entries.reduce((accum, value) => accum |= value.find === matches[1], false):
\* the accumulator is false, then the 32-bit integer 0 or 1
RECURSIVE ReduceFind(_, _, _)
ReduceFind(es, find, accum) ==
    IF es = <<>> THEN accum
    ELSE ReduceFind(Tail(es), find,
                    IF accum = 1 \/ Member(es[1].items, KeyFind) = Str(find) THEN 1 ELSE 0)

\* mutant: the three arrays live outside verify and are never emptied
VerifyLocalsHoisted ==
    [entries |-> entries, badEntries |-> badEntries, warnEntries |-> warnEntries]

\* const badEntries = []; const warnEntries = []; const entries = [];
VerifyLocals == [entries |-> <<>>, badEntries |-> <<>>, warnEntries |-> <<>>]

\* mutant: an overwriting entry is reported and added all the same
ClassifyPushBoth(l, entry, matches) ==
    IF matches # <<>> /\ Len(matches) >= 3
    THEN IF ReduceFind(l.entries, matches[2], 0) # 0
         THEN [l EXCEPT !.warnEntries = Append(@, entry),
                        !.entries = Append(@, AliasEntry(matches))]
         ELSE [l EXCEPT !.entries = Append(@, AliasEntry(matches))]
    ELSE [l EXCEPT !.badEntries = Append(@, entry)]

\* the body of the callback of flags.alias.forEach, given regex.exec's result
Classify(l, entry, matches) ==
    IF matches # <<>> /\ Len(matches) >= 3
    THEN IF ReduceFind(l.entries, matches[2], 0) # 0
         THEN [l EXCEPT !.warnEntries = Append(@, entry)]
         ELSE [l EXCEPT !.entries = Append(@, AliasEntry(matches))]
    ELSE [l EXCEPT !.badEntries = Append(@, entry)]

VerifyEntry(l, entry) == Classify(l, entry, RegexExec(entry))

RECURSIVE ForEach(_, _)
ForEach(items, l) ==
    IF items = <<>> THEN l ELSE ForEach(Tail(items), VerifyEntry(l, items[1]))

VerifyFailure == <<Lit("plugin-alias verification failure:\n")>>

BadEntriesMessage(bad) ==
    IF Len(bad) > 0
    THEN <<Lit("- can not parse "), Json(Arr(bad)),
           Lit(" each entry must be a 'string' in the format of '<xxx>=<yyy>'.")>>
    ELSE <<>>

\* mutant: `else if`, so overwriting entries are left out when there are bad ones
WarnEntriesMessageElseIf(bad, warn) ==
    IF Len(warn) > 0 /\ Len(bad) = 0
    THEN <<Lit("- the following entries overwrite previous entries "), Json(Arr(warn)),
           Lit(".")>>
    ELSE <<>>

WarnEntriesMessage(bad, warn) ==
    IF Len(warn) > 0
    THEN (IF Len(bad) > 0 THEN <<Lit("\n")>> ELSE <<>>)
         \o <<Lit("- the following entries overwrite previous entries "), Json(Arr(warn)),
              Lit(".")>>
    ELSE <<>>

\* { entries }
AliasConfig(es) == Obj(<<Str(KeyEntries), Arr(es)>>)

ErrorMessage(l) ==
    VerifyFailure \o BadEntriesMessage(l.badEntries)
    \o WarnEntriesMessage(l.badEntries, l.warnEntries)

\* if (errorMessage !== 'plugin-alias verification failure:\n') throw ...
ThrowIfFailure(errorMessage) ==
    IF errorMessage # VerifyFailure THEN NonFatalError(errorMessage) ELSE NoError

\* mutant: flags.alias is assigned after the throw statement
VerifiedAssignLast(f, l) ==
    [flags |-> IF ErrorMessage(l) # VerifyFailure THEN f
               ELSE [f EXCEPT !.alias = AliasConfig(l.entries)],
     locals |-> l,
     thrown |-> ThrowIfFailure(ErrorMessage(l))]

\* the state on leaving verify, whether by return or by throw
Verified(f, l) ==
    [flags |-> [f EXCEPT !.alias = AliasConfig(l.entries)],
     locals |-> l,
     thrown |-> ThrowIfFailure(ErrorMessage(l))]

\* flags.alias is no array: nothing runs
NotVerified(f) ==
    [flags |-> f,
     locals |-> [entries |-> entries, badEntries |-> badEntries, warnEntries |-> warnEntries],
     thrown |-> NoError]

\* verify(flags)
verify(f) ==
    IF ArrayIsArray(f.alias) THEN Verified(f, ForEach(f.alias.items, VerifyLocals))
    ELSE NotVerified(f)

-----------------------------------------------------------------------------
(* s_ADD_FLAGS of the older init hook: verify *)

LegacyLocals == [entries |-> <<>>, badEntries |-> <<>>, warnEntries |-> warnEntries]

LegacyClassify(l, entry, matches) ==
    IF matches # <<>> /\ Len(matches) >= 3
    THEN [l EXCEPT !.entries = Append(@, AliasEntry(matches))]
    ELSE [l EXCEPT !.badEntries = Append(@, entry)]

LegacyEntry(l, entry) == LegacyClassify(l, entry, RegexExec(entry))

RECURSIVE LegacyForEach(_, _)
LegacyForEach(items, l) ==
    IF items = <<>> THEN l ELSE LegacyForEach(Tail(items), LegacyEntry(l, items[1]))

LegacyThrow(bad) ==
    IF Len(bad) > 0
    THEN ErrorNotFatal(<<Lit("plugin-alias verify; can not parse "), Json(Arr(bad)),
                         Lit(" each entry must be in the format of <xxx>=<yyy>.")>>)
    ELSE NoError

LegacyVerified(f, l) ==
    [flags |-> [f EXCEPT !.alias = Arr(l.entries)],
     locals |-> l,
     thrown |-> LegacyThrow(l.badEntries)]

LegacyVerify(f) ==
    IF ArrayIsArray(f.alias) THEN LegacyVerified(f, LegacyForEach(f.alias.items, LegacyLocals))
    ELSE NotVerified(f)

-----------------------------------------------------------------------------
(* PluginLoader.getInputPlugin *)

\* bundleData: {} by default, or { cliFlags }
EmptyBundleData == [hasCliFlags |-> FALSE, cliFlags |-> [alias |-> Undefined, entry |-> Undefined]]
WithCliFlags(f) == [hasCliFlags |-> TRUE, cliFlags |-> f]

\* mutant: the typeof test is missing
CallsAliasAnyFlags(data) == data.hasCliFlags

\* whether getInputPlugin calls alias(bundleData.cliFlags.alias)
CallsAlias(data) == data.hasCliFlags /\ TypeofObject(data.cliFlags.alias)

\* the plugin object @rollup/plugin-alias builds from its options
RollupAlias(options) == Obj(<<Str(<<"n", "a", "m", "e">>), Str(<<"a", "l", "i", "a", "s">>),
                              Str(KeyEntries), Member(options.items, KeyEntries)>>)

-----------------------------------------------------------------------------
(* Inputs *)

SeqsUpTo(S, n) == UNION {[1..k -> S] : k \in 0..n}

Alphabet == {"a", "1", "=", "\n"}

\* every string of at most MaxStrLen characters
Strings == SeqsUpTo(Alphabet, MaxStrLen)

\* alias specs given on the command line
ArgPool == {<<"a", "=", "1">>, <<"a", "=", "2">>, <<"b", "=", "1">>, <<"1", "=", "a">>,
            <<"a", "=", "b", "=", "1">>, <<"a", "b">>, <<"=", "1">>, <<"a", "=">>, <<>>}

StrArray(ss) == Arr([i \in 1..Len(ss) |-> Str(ss[i])])

Tokens == {Tk("["), Tk("]"), Tk(","), Tk("{"), Tk("}"), Tk(":"), Tk("null"),
           TkStr(<<"a", "=", "1">>), TkNum(<<"5">>)}

Prefixes == {"DEPLOY", "FVTTDEV"}
Commands == {"bundle", "build"}

EnvNamed(name, ts) == [name |-> name, value |-> ts]

\* a few environments: not set, an array, a syntax error, an object
SomeEnvs ==
    {NotSet}
    \cup {EnvNamed(EnvVarName(p), ts) :
            p \in Prefixes,
            ts \in {<<Tk("["), TkStr(<<"b", "=", "2">>), Tk("]")>>, <<Tk("[")>>,
                    <<Tk("{"), Tk("}")>>}}

RepeatPool == {<<"a", "=", "1">>, <<"b", "=", "1">>, <<"a">>}

\* the flags object before the alias flag is parsed
NewFlags == [alias |-> Undefined, entry |-> Str(<<"m", "a", "i", "n">>)]

NoneSeen == [command |-> "", alias |-> Undefined]

Start(cmd, prefix, args, e) ==
    /\ command = cmd
    /\ flagEnvPrefix = prefix
    /\ argv = args
    /\ env = e
    /\ flags = NewFlags
    /\ pc = "start"
    /\ thrown = NoError
    /\ verifyCalls = 0
    /\ aliasCalls = <<>>
    /\ bundleData = EmptyBundleData
    /\ plugin = Undefined

Fresh ==
    /\ runs = 1
    /\ entries = <<>>
    /\ badEntries = <<>>
    /\ warnEntries = <<>>
    /\ verifyArg = Undefined
    /\ seenIn = NoneSeen
    /\ seenOut = Undefined

\* the flag given on the command line, up to MaxEntries times; the environment
\* variable may be set as well
InitArgv ==
    \E cmd \in Commands, ss \in SeqsUpTo(ArgPool, MaxEntries),
       e \in {NotSet, EnvNamed("DEPLOY_ALIAS", <<Tk("["), TkStr(<<"b", "=", "2">>), Tk("]")>>)} :
        Start(cmd, "DEPLOY", StrArray(ss), e)

\* the flag given once, with any string
InitString ==
    \E cmd \in Commands, s \in Strings : Start(cmd, "DEPLOY", StrArray(<<s>>), NotSet)

\* the flag absent, the environment variable set to any text
InitEnv ==
    \E cmd \in Commands, ts \in SeqsUpTo(Tokens, MaxEnvTokens) :
        Start(cmd, "DEPLOY", Undefined, EnvNamed("DEPLOY_ALIAS", ts))

\* the flag absent, one of a few environments
InitDefault ==
    \E cmd \in Commands, p \in Prefixes, e \in SomeEnvs : Start(cmd, p, Undefined, e)

Init == Fresh /\ (InitArgv \/ InitString \/ InitEnv \/ InitDefault)

-----------------------------------------------------------------------------
(* The pipeline: flag parsing (default), verify, getInputPlugin *)

\* the flag is on the command line: 'multiple': true gives the array of its values
FlagSupplied ==
    /\ pc = "start"
    /\ argv # Undefined
    /\ flags' = [flags EXCEPT !.alias = argv]
    /\ pc' = "parsed"
    /\ UNCHANGED <<command, flagEnvPrefix, argv, env, thrown, entries, badEntries, warnEntries,
                   verifyArg, verifyCalls, aliasCalls, bundleData, plugin, runs, seenIn, seenOut>>

\* the flag parser takes what the `default` function returned or threw
Defaulted(r) ==
    /\ thrown' = r.thrown
    /\ flags' = [flags EXCEPT !.alias = r.value]
    /\ pc' = IF r.thrown = NoError THEN "parsed" ELSE "failed"

\* the flag is not on the command line: its `default` function runs
Default ==
    /\ pc = "start"
    /\ argv = Undefined
    /\ Defaulted(IF command = "bundle" THEN AliasDefault(env, flagEnvPrefix)
                 ELSE LegacyDefault(env))
    /\ UNCHANGED <<command, flagEnvPrefix, argv, env, entries, badEntries, warnEntries,
                   verifyArg, verifyCalls, aliasCalls, bundleData, plugin, runs, seenIn, seenOut>>

\* the first call that accepts an input sequence without error is remembered
Remember(r, first) ==
    /\ seenIn' = IF first THEN [command |-> command, alias |-> flags.alias] ELSE seenIn
    /\ seenOut' = IF first THEN r.flags.alias ELSE seenOut

\* the state verify leaves behind
VerifyDone(r) ==
    /\ flags' = r.flags
    /\ thrown' = r.thrown
    /\ entries' = r.locals.entries
    /\ badEntries' = r.locals.badEntries
    /\ warnEntries' = r.locals.warnEntries
    /\ pc' = IF r.thrown = NoError THEN "verified" ELSE "failed"
    /\ Remember(r, seenIn = NoneSeen /\ ArrayIsArray(flags.alias) /\ r.thrown = NoError)

\* the verification callback runs on the flags object
Verify ==
    /\ pc \in {"parsed", "verified"}
    /\ verifyCalls < MaxVerifyCalls
    /\ VerifyDone(IF command = "bundle" THEN verify(flags) ELSE LegacyVerify(flags))
    /\ verifyArg' = flags.alias
    /\ verifyCalls' = verifyCalls + 1
    /\ UNCHANGED <<command, flagEnvPrefix, argv, env, aliasCalls, bundleData, plugin, runs>>

\* the bundler collects the input plugins
GetInputPlugin ==
    /\ pc = "verified"
    /\ command = "bundle"
    /\ \E data \in {EmptyBundleData, WithCliFlags(flags)} :
          /\ bundleData' = data
          /\ IF CallsAlias(data)
             THEN /\ aliasCalls' = Append(aliasCalls, data.cliFlags.alias)
                  /\ plugin' = RollupAlias(data.cliFlags.alias)
             ELSE /\ aliasCalls' = aliasCalls
                  /\ plugin' = Undefined
    /\ pc' = "done"
    /\ UNCHANGED <<command, flagEnvPrefix, argv, env, flags, thrown, entries, badEntries,
                   warnEntries, verifyArg, verifyCalls, runs, seenIn, seenOut>>

Next == FlagSupplied \/ Default \/ Verify \/ GetInputPlugin

Spec == Init /\ [][Next]_vars

-----------------------------------------------------------------------------
(* The same process verifying one flags object after another *)

RepeatInputs ==
    {[argv |-> StrArray(ss), env |-> NotSet] : ss \in SeqsUpTo(RepeatPool, MaxRepeatEntries)}
    \cup {[argv |-> Undefined, env |-> e] :
            e \in {NotSet, EnvNamed("DEPLOY_ALIAS", <<Tk("["), TkStr(<<"a", "=", "1">>), Tk("]")>>),
                   EnvNamed("DEPLOY_ALIAS", <<Tk("{"), Tk("}")>>)}}

InitRepeat ==
    Fresh /\ \E cmd \in Commands, in \in RepeatInputs : Start(cmd, "DEPLOY", in.argv, in.env)

\* a fresh flags object, with other inputs
NewInvocation ==
    /\ pc \in {"verified", "done", "failed"}
    /\ runs < MaxRuns
    /\ \E in \in RepeatInputs :
          /\ argv' = in.argv
          /\ env' = in.env
    /\ flags' = NewFlags
    /\ pc' = "start"
    /\ thrown' = NoError
    /\ verifyCalls' = 0
    /\ aliasCalls' = <<>>
    /\ bundleData' = EmptyBundleData
    /\ plugin' = Undefined
    /\ runs' = runs + 1
    /\ UNCHANGED <<command, flagEnvPrefix, entries, badEntries, warnEntries, verifyArg,
                   seenIn, seenOut>>

NextRepeat == Next \/ NewInvocation

SpecRepeat == InitRepeat /\ [][NextRepeat]_vars

-----------------------------------------------------------------------------
(* What the properties below speak of *)

Loader == command = "bundle"

\* the last verify call ran on an array, and the state is the one it left
VerifiedArray == verifyCalls >= 1 /\ ArrayIsArray(verifyArg)

\* the object { find, replacement }
Pair(find, replacement) ==
    [type |-> "object", str |-> <<>>,
     items |-> <<Str(KeyFind), Str(find), Str(KeyReplacement), Str(replacement)>>]

\* the object { entries }
ConfigOf(es) ==
    [type |-> "object", str |-> <<>>,
     items |-> <<Str(KeyEntries), [type |-> "array", str |-> <<>>, items |-> es]>>]

\* the elements of xs at the indices in I, in the order of xs
SubseqAt(xs, I) ==
    [k \in 1..Cardinality(I) |-> xs[CHOOSE i \in I : Cardinality({x \in I : x <= i}) = k]]

IsMatch(e) == RegexExec(e) # <<>>
FindOf(e) == RegexExec(e)[2]
ReplacementOf(e) == RegexExec(e)[3]

\* element i matches and an earlier element matches with the same find
IsDuplicate(xs, i) ==
    /\ IsMatch(xs[i])
    /\ \E j \in 1..(i - 1) : IsMatch(xs[j]) /\ FindOf(xs[j]) = FindOf(xs[i])

BadOf(xs) == SubseqAt(xs, {i \in 1..Len(xs) : ~IsMatch(xs[i])})
DuplicatesOf(xs) == SubseqAt(xs, {i \in 1..Len(xs) : IsDuplicate(xs, i)})
FirstOccurrencesOf(xs) ==
    SubseqAt(xs, {i \in 1..Len(xs) : IsMatch(xs[i]) /\ ~IsDuplicate(xs, i)})
EntriesOf(xs) == [k \in 1..Len(xs) |-> Pair(FindOf(xs[k]), ReplacementOf(xs[k]))]

EqualsIn(s) == {j \in 1..Len(s) : s[j] = "="}

\* a string with exactly one `=`, a character on each side, no line terminator
SimpleSpec(v) ==
    /\ v.type = "string"
    /\ Cardinality(EqualsIn(v.str)) = 1
    /\ \A j \in EqualsIn(v.str) : 1 < j /\ j < Len(v.str)
    /\ \A k \in 1..Len(v.str) : v.str[k] \notin {"\n", "\r"}

Before(str) == SubSeq(str, 1, (CHOOSE j \in EqualsIn(str) : TRUE) - 1)
After(str) == SubSeq(str, (CHOOSE j \in EqualsIn(str) : TRUE) + 1, Len(str))

\* the lists JSON.stringify put into a message, read back
ListsIn(message) ==
    LET at == {k \in 1..Len(message) : message[k].json # <<>>}
    IN  [k \in 1..Cardinality(at) |-> JSONparse(SubseqAt(message, at)[k].json).value.items]

-----------------------------------------------------------------------------
(* C1: when every string given to PluginLoader's verify has the form       *)
(* find=replacement (one `=`, a character on each side) and the find keys  *)
(* are distinct, verify raises no error and flags.alias.entries are the    *)
(* {find, replacement} pairs of the strings, one per string, in input      *)
(* order; the empty sequence included.                                     *)
C1_WellFormedAccepted ==
    (/\ Loader
     /\ VerifiedArray
     /\ \A i \in 1..Len(verifyArg.items) : SimpleSpec(verifyArg.items[i])
     /\ \A i, j \in 1..Len(verifyArg.items) :
            i # j => Before(verifyArg.items[i].str) # Before(verifyArg.items[j].str))
    => /\ thrown = NoError
       /\ pc # "failed"
       /\ flags.alias = ConfigOf([i \in 1..Len(verifyArg.items) |->
                                    Pair(Before(verifyArg.items[i].str),
                                         After(verifyArg.items[i].str))])

C1_Witness ==
    /\ Loader
    /\ VerifiedArray
    /\ verifyArg.items = <<Str(<<"b", "=", "1">>), Str(<<"1", "=", "a">>), Str(<<"a", "=", "2">>)>>
    /\ thrown = NoError
    /\ Len(entries) = 3

C3_FindUnique ==
    (Loader /\ VerifiedArray)
    => /\ \A i, j \in 1..Len(entries) :
            i # j => Member(entries[i].items, KeyFind) # Member(entries[j].items, KeyFind)
       /\ entries = EntriesOf(FirstOccurrencesOf(verifyArg.items))
       /\ warnEntries = DuplicatesOf(verifyArg.items)
       /\ verifyArg.items = <<Str(<<"a", "=", "1">>), Str(<<"a", "=", "2">>)>>
            => /\ warnEntries = <<Str(<<"a", "=", "2">>)>>
               /\ entries = <<Pair(<<"a">>, <<"1">>)>>

C3_Witness ==
    /\ Loader
    /\ VerifiedArray
    /\ verifyArg.items = <<Str(<<"a", "=", "1">>), Str(<<"a", "=", "2">>)>>
    /\ warnEntries = <<Str(<<"a", "=", "2">>)>>
    /\ flags.alias = ConfigOf(<<Pair(<<"a">>, <<"1">>)>>)

-----------------------------------------------------------------------------
\* one string was given to verify, of either registration
OneString == VerifiedArray /\ Len(verifyArg.items) = 1 /\ verifyArg.items[1].type = "string"
TheString == verifyArg.items[1].str

NonEmptySides ==
    \A k \in 1..Len(entries) :
        /\ Member(entries[k].items, KeyFind).str # <<>>
        /\ Member(entries[k].items, KeyReplacement).str # <<>>

(* C4, as claimed: a string with more than one `=` is split at the first   *)
(* `=`: find is the text before it, replacement the whole remainder; both  *)
(* are non-empty in every accepted entry.                                  *)
C4_SplitAtFirstEquals ==
    /\ NonEmptySides
    /\ (OneString /\ Cardinality(EqualsIn(TheString)) > 1 /\ entries # <<>>)
        => entries = <<Pair(SubSeq(TheString, 1, Min(EqualsIn(TheString)) - 1),
                            SubSeq(TheString, Min(EqualsIn(TheString)) + 1, Len(TheString)))>>

\* the lines of s: maximal runs without a line terminator, as <<first, last>>
LinesOf(s) ==
    {ab \in (1..Len(s)) \X (1..Len(s)) :
        /\ ab[1] <= ab[2]
        /\ \A k \in ab[1]..ab[2] : s[k] \notin {"\n", "\r"}
        /\ ab[1] = 1 \/ s[ab[1] - 1] \in {"\n", "\r"}
        /\ ab[2] = Len(s) \/ s[ab[2] + 1] \in {"\n", "\r"}}

\* the `=` of a line with a character of the line on each side
InnerEquals(s, ab) == {j \in (ab[1] + 1)..(ab[2] - 1) : s[j] = "="}

SplitLines(s) == {ab \in LinesOf(s) : InnerEquals(s, ab) # {}}
FirstSplitLine(s) == CHOOSE ab \in SplitLines(s) : \A cd \in SplitLines(s) : ab[1] <= cd[1]

(* C4, amended: the string is split at the last `=`, not the first. In the *)
(* first line of the string that has an `=` with a character before and    *)
(* after it, find is the line's text before the last such `=` (any earlier *)
(* `=` included) and replacement is the rest of that line; a string with   *)
(* no such line is a bad entry. Both are non-empty in every accepted entry.*)
C4_SplitAtLastEquals ==
    /\ NonEmptySides
    /\ OneString =>
        IF SplitLines(TheString) = {}
        THEN entries = <<>> /\ badEntries = <<Str(TheString)>>
        ELSE entries =
                <<Pair(SubSeq(TheString, FirstSplitLine(TheString)[1],
                              Max(InnerEquals(TheString, FirstSplitLine(TheString))) - 1),
                       SubSeq(TheString,
                              Max(InnerEquals(TheString, FirstSplitLine(TheString))) + 1,
                              FirstSplitLine(TheString)[2]))>>

C4_Witness ==
    /\ OneString
    /\ TheString = <<"a", "=", "1", "=", "a">>
    /\ entries = <<Pair(<<"a", "=", "1">>, <<"a">>)>>

-----------------------------------------------------------------------------
\* the name of the environment variable the running command reads
NameRead == IF Loader THEN flagEnvPrefix \o "_ALIAS" ELSE "DEPLOY_ALIAS"

\* the `default` function has run and nothing has run since
Defaulted0 == argv = Undefined /\ pc \in {"parsed", "failed"} /\ verifyCalls = 0 /\ runs = 1

\* the message names the variable
NamesVariable(message) ==
    IF Loader THEN \E k \in 1..Len(message) : message[k] = [lit |-> NameRead, json |-> <<>>]
    ELSE message[1].lit \in {"Could not parse 'DEPLOY_ALIAS' as a JSON array;\n",
                             "Please format 'DEPLOY_ALIAS' as a JSON array."}

(* C5: with the flag absent and the environment variable set, `default`    *)
(* parses the value as JSON. A value that is no JSON, or JSON of another   *)
(* type than array, fails with a non-fatal error whose message names the   *)
(* variable, and no entries are produced; a JSON array is returned as the  *)
(* raw alias sequence, in the same order.                                  *)
C5_DefaultFromEnvironment ==
    (Defaulted0 /\ env # NotSet /\ env.name = NameRead)
    => /\ IF JSONparse(env.value).ok /\ JSONparse(env.value).value.type = "array"
          THEN /\ pc = "parsed"
               /\ thrown = NoError
               /\ flags.alias.type = "array"
               /\ JSONstringify(flags.alias) = env.value
          ELSE /\ pc = "failed"
               /\ thrown.kind \in {"NonFatalError", "Error"}
               /\ thrown.bundler_fatal = FALSE
               /\ NamesVariable(thrown.message)
               /\ flags.alias = Undefined
               /\ entries = <<>>
       /\ env.value = <<Tk("{"), TkStr(<<"a", "=", "1">>), Tk(":"), TkNum(<<"5">>), Tk("}")>>
            => /\ pc = "failed"
               /\ thrown.message[1].lit \in {"Please format '",
                                             "Please format 'DEPLOY_ALIAS' as a JSON array."}
       /\ env.value \in {<<Tk("[")>>, <<TkNum(<<"5">>), Tk(",")>>, <<>>}
            => /\ pc = "failed"
               /\ thrown.message[1].lit \in {"Could not parse '",
                                             "Could not parse 'DEPLOY_ALIAS' as a JSON array;\n"}
       /\ env.value = <<Tk("["), TkNum(<<"5">>), Tk(","), TkStr(<<"a", "=", "1">>), Tk("]")>>
            => flags.alias.items = <<Num(<<"5">>), Str(<<"a", "=", "1">>)>>

C5_Witness ==
    /\ Loader
    /\ Defaulted0
    /\ env.name = NameRead
    /\ env.value = <<Tk("{"), TkStr(<<"a", "=", "1">>), Tk(":"), TkNum(<<"5">>), Tk("}")>>
    /\ pc = "failed"
    /\ thrown.kind = "NonFatalError"

-----------------------------------------------------------------------------
\* neither the flag nor the environment variable is given
NoSource == argv = Undefined /\ (env = NotSet \/ env.name # NameRead)

\* a resolved AliasConfig: an object holding entries
IsAliasConfig(v) == v.type = "object" /\ Len(v.items) = 2 /\ v.items[1] = Str(KeyEntries)

(* C6: with the flag absent and the environment variable not set, the      *)
(* alias value stays undefined, verify raises nothing and leaves the flags *)
(* as they were, and getInputPlugin returns no plugin; getInputPlugin      *)
(* calls the alias transform exactly when cliFlags.alias holds a resolved  *)
(* AliasConfig, once, with that configuration unmodified.                  *)
C6_NoSourceNoPlugin ==
    /\ (NoSource /\ runs = 1)
        => /\ flags = [alias |-> Undefined, entry |-> Str(<<"m", "a", "i", "n">>)]
           /\ thrown = NoError
           /\ pc # "failed"
           /\ aliasCalls = <<>>
           /\ plugin = Undefined
    /\ pc = "done"
        => /\ aliasCalls =
                IF bundleData.hasCliFlags /\ IsAliasConfig(bundleData.cliFlags.alias)
                THEN <<ConfigOf(entries)>> ELSE <<>>
           /\ (plugin # Undefined) <=> (aliasCalls # <<>>)
           /\ bundleData.hasCliFlags => bundleData.cliFlags = flags
           /\ flags.alias = Undefined \/ flags.alias = ConfigOf(entries)
    /\ pc # "done" => aliasCalls = <<>> /\ plugin = Undefined

C6_Witness ==
    /\ NoSource
    /\ pc = "done"
    /\ verifyCalls = 1
    /\ bundleData.hasCliFlags
    /\ plugin = Undefined

-----------------------------------------------------------------------------
(* C7: for every element of the resolved array that is not a string of the *)
(* form <xxx>=<yyy>, in particular every element that is no string,        *)
(* PluginLoader's verify raises an error and does not accept the element.  *)
C7_NonStringRejected ==
    (Loader /\ VerifiedArray)
    => \A i \in 1..Len(verifyArg.items) :
          verifyArg.items[i].type # "string"
          => /\ thrown # NoError
             /\ \E k \in 1..Len(badEntries) : badEntries[k] = verifyArg.items[i]
             /\ Len(entries) <= Cardinality({j \in 1..Len(verifyArg.items) :
                                                verifyArg.items[j].type = "string"})

-----------------------------------------------------------------------------
(* C8: verify keeps nothing between calls: run again on a fresh flags      *)
(* object holding an input sequence it accepted before, whatever was       *)
(* verified in between, it accepts the sequence again and produces the     *)
(* same AliasConfig.                                                       *)
C8_SameInputSameOutput ==
    (VerifiedArray /\ seenIn = [command |-> command, alias |-> verifyArg])
    => /\ thrown = NoError
       /\ flags.alias = seenOut

C8_Witness ==
    /\ Loader
    /\ runs = 3
    /\ VerifiedArray
    /\ seenIn = [command |-> command, alias |-> verifyArg]
    /\ Len(verifyArg.items) = 2
    /\ flags.alias = seenOut
    /\ Len(entries) = 2

-----------------------------------------------------------------------------
Labels == {"entries", "bad", "warn"}
Labelled(f, label) == {i \in DOMAIN f : f[i] = label}

(* C9: PluginLoader's verify partitions its input: every element is in     *)
(* exactly one of entries, badEntries, warnEntries, the three lengths sum  *)
(* to the input length, and each list keeps the order of the input.        *)
C9_Partition ==
    (Loader /\ VerifiedArray)
    => /\ Len(entries) + Len(badEntries) + Len(warnEntries) = Len(verifyArg.items)
       /\ \E f \in [1..Len(verifyArg.items) -> Labels] :
            /\ badEntries = SubseqAt(verifyArg.items, Labelled(f, "bad"))
            /\ warnEntries = SubseqAt(verifyArg.items, Labelled(f, "warn"))
            /\ \A i \in Labelled(f, "entries") : IsMatch(verifyArg.items[i])
            /\ entries = EntriesOf(SubseqAt(verifyArg.items, Labelled(f, "entries")))

C9_Witness ==
    /\ Loader
    /\ VerifiedArray
    /\ Len(verifyArg.items) = 3
    /\ Len(entries) = 1
    /\ Len(badEntries) = 1
    /\ Len(warnEntries) = 1

-----------------------------------------------------------------------------
\* a step of PluginLoader's verify
VerifyStep == Loader /\ verifyCalls' = verifyCalls + 1

====
